---- MODULE Spec2Model ----
(***************************************************************************)
(* Discrete-event nest simulator: ArrivalGenerator (generators.py),        *)
(* ServiceTimeSampler (distributions.py), Nest (nest.py, SIRO single       *)
(* server) and the event loop of Simulator.run (simulator.py).             *)
(*                                                                         *)
(* Times are integer seconds.  Python's None is the empty sequence <<>>    *)
(* and a present value v of an Optional is <<v>>.  A raised ValueError is  *)
(* the string "ValueError" where a name is expected and pc = "error" in    *)
(* the control state.                                                      *)
(***************************************************************************)
EXTENDS Integers, Sequences, FiniteSets, TLC

VARIABLES
    n_nests,              \* Simulator.n_nests
    distribution_config,  \* ServiceTimeSampler.distribution_config
    time_windows,         \* ArrivalGenerator.time_windows (insertion-ordered dict)
    duration_days,        \* config["duration_days"]
    pc,                   \* position in generate_arrivals / Simulator.run
    t,                    \* local t of generate_arrivals
    arrivals,             \* list returned by generate_arrivals
    events,               \* the heap of Simulator.run
    final_time,           \* local final_time of Simulator.run
    nests,                \* Simulator.nests
    logs,                 \* Simulator.logs
    placed                \* history: <<time, hen_id, nest_id>> of every dispatched arrival

vars == <<n_nests, distribution_config, time_windows, duration_days, pc, t,
          arrivals, events, final_time, nests, logs, placed>>

-----------------------------------------------------------------------------
(* Bounds of the model *)

MaxArrivals == 3     \* longest arrival list fed to the event loop
MaxDays == 1         \* largest duration_days of a generator run

NestCounts == {1, 2}              \* values of config["n_nests"]
Hens == {1, 2}                    \* generators.py:61 with hens_number = 2
ArrivalTimes == {0, 5, 10}        \* arrival instants fed to the event loop
DrawGrid == {-5, 0, 5, 10}        \* values a service-time draw is taken from
DtDraws == {0, 1800, 14395, 16200, 21600, 43200} \* values random.expovariate is taken from

SECONDS_PER_DAY == 86400
SECONDS_PER_HOUR == 3600

None == <<>>
Some(v) == <<v>>
Raised == "ValueError"

Max(a, b) == IF a >= b THEN a ELSE b
Min(a, b) == IF a <= b THEN a ELSE b

-----------------------------------------------------------------------------
(* Configuration values *)

\* simulator.py:29-33, the windows used when none are passed
DefaultWindows ==
    << [name |-> "notte",  start |-> 20, end |-> 4],
       [name |-> "giorno", start |-> 5,  end |-> 15],
       [name |-> "sera",   start |-> 16, end |-> 19] >>

\* a two-window day in which each window ends at the hour the next one starts
DayNight  == << [name |-> "A", start |-> 0,  end |-> 12],
                [name |-> "B", start |-> 12, end |-> 24] >>
NightDay  == << [name |-> "B", start |-> 12, end |-> 24],
                [name |-> "A", start |-> 0,  end |-> 12] >>
\* a gapless day in which no window starts at hour 0
Shifted   == << [name |-> "B", start |-> 18, end |-> 6],
                [name |-> "A", start |-> 6,  end |-> 18] >>

WindowNames == {"A", "B", "giorno", "notte", "sera"}

\* Python's str ordering of the window names used
NameRank(name) ==
    CASE name = "A" -> 1 [] name = "B" -> 2 [] name = "giorno" -> 3
      [] name = "notte" -> 4 [] OTHER -> 5

\* per-window distribution record; mixture_prob is in percent
Dist(mix, umin, umax, rate) ==
    [mixture_prob |-> mix, uniform |-> [min |-> umin, max |-> umax],
     arrival_rate_per_hour |-> rate]

MixedConfig == [w \in WindowNames |-> Dist(50, 5, 10, 2)]
Fixed10Config == [w \in WindowNames |-> Dist(0, 10, 10, 2)]
\* a uniform-only configuration whose draws can be 0
ShortConfig == [w \in WindowNames |-> Dist(0, 0, 5, 2)]

-----------------------------------------------------------------------------
(* ServiceTimeSampler *)

\* distributions.py:9-23: the set of values sample(window) can return;
\* {} stands for the ValueError of a window without configuration
sample(cfg, window) ==
    IF window \notin DOMAIN cfg THEN {}
    ELSE LET c == cfg[window] IN
         (IF c.mixture_prob > 0 THEN {d \in DrawGrid : d > 0} ELSE {})
         \cup
         (IF c.mixture_prob < 100
            THEN {d \in DrawGrid : c.uniform.min <= d /\ d <= c.uniform.max}
            ELSE {})

\* an accessor that answers 0 for a window without configuration
arrival_rate_per_hourDefaults(cfg, window) ==
    IF window \notin DOMAIN cfg THEN Some(0)
    ELSE Some(cfg[window].arrival_rate_per_hour)

\* distributions.py:25-29; <<>> is the ValueError
arrival_rate_per_hour(cfg, window) ==
    IF window \notin DOMAIN cfg THEN None
    ELSE Some(cfg[window].arrival_rate_per_hour)

\* the accessor generate_arrivals calls (generators.py:46); <<>> is the raise
arrival_rate_per_second(cfg, window) ==
    IF window \notin DOMAIN cfg THEN None
    ELSE Some(cfg[window].arrival_rate_per_hour)

-----------------------------------------------------------------------------
(* ArrivalGenerator helpers *)

\* generators.py:9-12 with hour = secs / 3600 (secs = current_time % 86400)
_in_window(secs, start, end) ==
    IF start <= end
      THEN start * SECONDS_PER_HOUR <= secs /\ secs <= end * SECONDS_PER_HOUR
      ELSE secs >= start * SECONDS_PER_HOUR \/ secs <= end * SECONDS_PER_HOUR

\* generators.py:21-26: first matching window in dict order, or the raise
window_for_time(tw, current_time) ==
    LET secs == current_time % SECONDS_PER_DAY
        hits == {i \in 1..Len(tw) : _in_window(secs, tw[i].start, tw[i].end)}
    IN IF hits = {} THEN Raised
       ELSE tw[CHOOSE i \in hits : \A j \in hits : i <= j].name

\* generators.py:28-37
_next_boundary_seconds(tw, current_time) ==
    LET current_day == current_time \div SECONDS_PER_DAY
        base(i) == current_day * SECONDS_PER_DAY + tw[i].start * SECONDS_PER_HOUR
        candidate(i) == IF base(i) <= current_time
                          THEN base(i) + SECONDS_PER_DAY ELSE base(i)
        cands == {candidate(i) : i \in 1..Len(tw)}
    IN CHOOSE c \in cands : \A d \in cands : c <= d

-----------------------------------------------------------------------------
(* Nest *)

\* nest.py:9-18
NewNest ==
    [busy_until |-> 0, queue |-> <<>>,
     occupancy_start |-> None, total_occupancy_duration |-> 0,
     single_hen_start |-> None, total_single_hen_duration |-> 0]

LogEntry(ts, hen, nid, type) ==
    [timestamp |-> ts, hen_id |-> hen, nest_id |-> nid, event_type |-> type]

\* nest.py:33 and nest.py:84: the end of a service started at current_time
ServiceEnd(current_time, service_time) == current_time + service_time

\* an idle test that forgets busy_until
was_emptyIgnoresBusy(nest, current_time) == nest.queue = <<>>

\* nest.py:25
was_empty(nest, current_time) ==
    current_time >= nest.busy_until /\ nest.queue = <<>>

\* nest.py:20-51; returns the nest after the call, the logs and the exit event
handle_arrival(nest, nid, current_time, hen_id, service_time) ==
    IF was_empty(nest, current_time)
      THEN [nest |-> [nest EXCEPT !.occupancy_start = Some(current_time),
                                  !.single_hen_start = Some(current_time),
                                  !.busy_until = ServiceEnd(current_time, service_time)],
            logs |-> << LogEntry(current_time, hen_id, nid, "entry") >>,
            exit |-> Some(<< ServiceEnd(current_time, service_time), hen_id >>)]
      ELSE LET closes == nest.queue = <<>> /\ nest.single_hen_start # None IN
           [nest |-> [nest EXCEPT
                        !.total_single_hen_duration =
                            IF closes THEN @ + (current_time - nest.single_hen_start[1])
                                      ELSE @,
                        !.single_hen_start = IF closes THEN None ELSE @,
                        !.queue = Append(@, hen_id)],
            logs |-> <<>>,
            exit |-> None]

\* a deletion that only works on the head of the queue
RemoveAtHeadOnly(s, i) == IF i = 1 THEN Tail(s) ELSE s

\* nest.py:71: del self.queue[idx] (idx counted from 1 here)
RemoveAt(s, i) == SubSeq(s, 1, i - 1) \o SubSeq(s, i + 1, Len(s))

\* taking a hen from the queue without ever re-opening the single-hen interval
TakeFromQueueNoReopen(nest, current_time, idx) ==
    LET rest == RemoveAt(nest.queue, idx)
        ends == rest # <<>> /\ nest.single_hen_start # None
    IN [nest EXCEPT
          !.queue = rest,
          !.total_single_hen_duration =
              IF ends THEN @ + (current_time - nest.single_hen_start[1]) ELSE @,
          !.single_hen_start = IF ends THEN None ELSE @]

\* nest.py:67-81: the queue and the single-hen interval after hen idx is taken
TakeFromQueue(nest, current_time, idx) ==
    LET rest == RemoveAt(nest.queue, idx)
        ends == rest # <<>> /\ nest.single_hen_start # None
        opens == rest = <<>> /\ nest.single_hen_start = None
    IN [nest EXCEPT
          !.queue = rest,
          !.total_single_hen_duration =
              IF ends THEN @ + (current_time - nest.single_hen_start[1]) ELSE @,
          !.single_hen_start =
              IF ends THEN None ELSE IF opens THEN Some(current_time) ELSE @]

\* nest.py:53-106; idx is the random.randrange draw (1-based here)
handle_exit(nest, nid, current_time, hen_id, idx, service_time) ==
    LET out == LogEntry(current_time, hen_id, nid, "exit") IN
    IF nest.queue # <<>>
      THEN LET next_hen == nest.queue[idx]
               taken == TakeFromQueue(nest, current_time, idx)
           IN [nest |-> [taken EXCEPT
                           !.busy_until = ServiceEnd(current_time, service_time)],
               logs |-> << out, LogEntry(current_time, next_hen, nid, "entry") >>,
               exit |-> Some(<< ServiceEnd(current_time, service_time), next_hen >>)]
      ELSE [nest |-> [nest EXCEPT
                        !.total_single_hen_duration =
                            IF nest.single_hen_start # None
                              THEN @ + (current_time - nest.single_hen_start[1]) ELSE @,
                        !.single_hen_start = None,
                        !.total_occupancy_duration =
                            IF nest.occupancy_start # None
                              THEN @ + (current_time - nest.occupancy_start[1]) ELSE @,
                        !.occupancy_start = None,
                        !.busy_until = current_time],
            logs |-> << out >>,
            exit |-> None]

\* a finalize that adds the open intervals but leaves them open
finalize_metricsKeepsOpen(nest, ftime) ==
    [nest EXCEPT
       !.total_occupancy_duration =
           IF nest.occupancy_start # None
             THEN @ + (ftime - nest.occupancy_start[1]) ELSE @,
       !.total_single_hen_duration =
           IF nest.single_hen_start # None
             THEN @ + (ftime - nest.single_hen_start[1]) ELSE @]

\* nest.py:108-117
finalize_metrics(nest, ftime) ==
    [nest EXCEPT
       !.total_occupancy_duration =
           IF nest.occupancy_start # None
             THEN @ + (ftime - nest.occupancy_start[1]) ELSE @,
       !.occupancy_start = None,
       !.total_single_hen_duration =
           IF nest.single_hen_start # None
             THEN @ + (ftime - nest.single_hen_start[1]) ELSE @,
       !.single_hen_start = None]

-----------------------------------------------------------------------------
(* The heap of Simulator.run: a list kept in tuple order *)

\* an event tuple that loses its nest id
EventNoNest(time, kind, hen, nid, window) ==
    [time |-> time, kind |-> kind, hen_id |-> hen, nest_id |-> None, window |-> window]

\* simulator.py:150, 162 and 170: the tuple pushed on the heap
Event(time, kind, hen, nid, window) ==
    [time |-> time, kind |-> kind, hen_id |-> hen, nest_id |-> nid, window |-> window]

\* an order of the kinds in which "exit" comes first
KindRankExitFirst(kind) == IF kind = "exit" THEN 1 ELSE 2

\* Python's str order: "arrival" < "exit"
KindRank(kind) == IF kind = "arrival" THEN 1 ELSE 2
NestRank(nid) == IF nid = None THEN -1 ELSE nid[1]

\* Python's comparison of (timestamp, kind, hen_id, nest_id, window) tuples
EventLess(a, b) ==
    \/ a.time < b.time
    \/ a.time = b.time /\ KindRank(a.kind) < KindRank(b.kind)
    \/ a.time = b.time /\ a.kind = b.kind /\ a.hen_id < b.hen_id
    \/ a.time = b.time /\ a.kind = b.kind /\ a.hen_id = b.hen_id
         /\ NestRank(a.nest_id) < NestRank(b.nest_id)
    \/ a.time = b.time /\ a.kind = b.kind /\ a.hen_id = b.hen_id
         /\ a.nest_id = b.nest_id /\ NameRank(a.window) < NameRank(b.window)

\* heapq.heappush: the list stays ordered, so heappop takes its head
heappush(heap, e) ==
    LET k == Cardinality({i \in 1..Len(heap) : ~ EventLess(e, heap[i])})
    IN SubSeq(heap, 1, k) \o << e >> \o SubSeq(heap, k + 1, Len(heap))

RECURSIVE PushAll(_, _)
PushAll(heap, arr) ==
    IF arr = <<>> THEN heap
    ELSE PushAll(heappush(heap, Event(Head(arr)[1], "arrival", Head(arr)[2],
                                      None, Head(arr)[3])),
                 Tail(arr))

RECURSIVE MaxTime(_, _)
MaxTime(arr, acc) ==
    IF arr = <<>> THEN acc ELSE MaxTime(Tail(arr), Max(acc, Head(arr)[1]))

NestIds == 0..(n_nests - 1)

-----------------------------------------------------------------------------
(* ArrivalGenerator.generate_arrivals *)

MaxGenArrivals == 3   \* longest list a generator run of the model builds

GenWindows == {DefaultWindows, DayNight, NightDay, Shifted}

\* the rates of windows A and B range over zero and a positive rate
GenConfigs ==
    {[w \in WindowNames |->
        Dist(50, 5, 10, IF w = "A" THEN ra ELSE IF w = "B" THEN rb ELSE 2)] :
       ra \in {0, 2}, rb \in {0, 2}}

\* generators.py:40
total_seconds == duration_days * SECONDS_PER_DAY

\* generators.py:59: the test that ends the loop after t has advanced
PastHorizon(time, total) == time > total

\* generators.py:39-42, on a generator built as in simulator.py:34
GenInit ==
    /\ n_nests = 1
    /\ distribution_config \in GenConfigs
    /\ time_windows \in GenWindows
    /\ duration_days \in 1..MaxDays
    /\ pc = "generate"
    /\ t = 0
    /\ arrivals = <<>>
    /\ events = <<>>
    /\ final_time = 0
    /\ nests = [i \in NestIds |-> NewNest]
    /\ logs = <<>>
    /\ placed = <<>>

\* generators.py:44-62: one iteration of the while loop
GenStep ==
    /\ pc = "generate"
    /\ t < total_seconds
    /\ LET window == window_for_time(time_windows, t)
           rate_sec == arrival_rate_per_second(distribution_config, window)
           boundary == _next_boundary_seconds(time_windows, t)
       IN IF window = Raised \/ rate_sec = None
            THEN pc' = "error" /\ UNCHANGED <<t, arrivals>>
            ELSE IF rate_sec[1] <= 0
              THEN /\ t' = Min(boundary, total_seconds)
                   /\ UNCHANGED <<pc, arrivals>>
              ELSE \E dt \in DtDraws :
                     IF t + dt >= boundary
                       THEN t' = boundary /\ UNCHANGED <<pc, arrivals>>
                       ELSE /\ t' = t + dt
                            /\ IF PastHorizon(t + dt, total_seconds)
                                 THEN pc' = "returned" /\ UNCHANGED arrivals
                                 ELSE /\ Len(arrivals) < MaxGenArrivals
                                      /\ \E hen_id \in Hens :
                                           arrivals' = Append(arrivals,
                                                              << t + dt, hen_id, window >>)
                                      /\ UNCHANGED pc
    /\ UNCHANGED <<n_nests, distribution_config, time_windows, duration_days,
                   events, final_time, nests, logs, placed>>

\* generators.py:44 and 64: the loop condition fails and the list is returned
GenReturn ==
    /\ pc = "generate"
    /\ t >= total_seconds
    /\ pc' = "returned"
    /\ UNCHANGED <<n_nests, distribution_config, time_windows, duration_days,
                   t, arrivals, events, final_time, nests, logs, placed>>

GenNext == GenStep \/ GenReturn

SpecGen == GenInit /\ [][GenNext]_vars

-----------------------------------------------------------------------------
(* Simulator.run *)

\* the arrival lists handed to the event loop: time-ordered, at most
\* MaxArrivals long, each arrival tagged with the window of its instant
ArrivalLists(tw) ==
    LET raw == UNION {[1..k -> ArrivalTimes \X Hens] : k \in 0..MaxArrivals}
        sorted(f) == \A i \in 1..(Len(f) - 1) : f[i][1] <= f[i + 1][1]
    IN {[i \in 1..Len(f) |-> << f[i][1], f[i][2], window_for_time(tw, f[i][1]) >>] :
          f \in {g \in raw : sorted(g)}}

SimConfigs == {MixedConfig, Fixed10Config, ShortConfig}

\* simulator.py:17-36
Init ==
    /\ n_nests \in NestCounts
    /\ distribution_config \in SimConfigs
    /\ time_windows = DefaultWindows
    /\ duration_days = 1
    /\ pc = "init"
    /\ t = 0
    /\ arrivals = <<>>
    /\ events = <<>>
    /\ final_time = 0
    /\ nests = [i \in NestIds |-> NewNest]
    /\ logs = <<>>
    /\ placed = <<>>

\* simulator.py:143-150: the arrivals are obtained and pushed
Start ==
    /\ pc = "init"
    /\ IF window_for_time(time_windows, 0) = Raised
         THEN /\ pc' = "error"
              /\ UNCHANGED <<arrivals, events, final_time>>
         ELSE \E arr \in ArrivalLists(time_windows) :
                /\ arrivals' = arr
                /\ events' = PushAll(<<>>, arr)
                /\ final_time' = MaxTime(arr, 0)
                /\ pc' = "loop"
    /\ UNCHANGED <<n_nests, distribution_config, time_windows, duration_days,
                   t, nests, logs, placed>>

\* a loop that forgets to push the returned exit event
PushExitDropped(heap, exit, nid, window) == heap

\* simulator.py:160-162 and 168-170: the returned exit event is pushed
PushExit(heap, exit, nid, window) ==
    IF exit = None THEN heap
    ELSE heappush(heap, Event(exit[1][1], "exit", exit[1][2], Some(nid), window))

\* simulator.py:152-162: an arrival is popped and dispatched to a chosen nest
ProcessArrival ==
    /\ pc = "loop"
    /\ events # <<>>
    /\ Head(events).kind = "arrival"
    /\ LET e == Head(events) IN
       \E nid \in NestIds :
         /\ final_time' = Max(final_time, e.time)
         /\ placed' = Append(placed, << e.time, e.hen_id, nid >>)
         /\ IF was_empty(nests[nid], e.time)
              THEN IF sample(distribution_config, e.window) = {}
                     THEN /\ pc' = "error"
                          /\ events' = Tail(events)
                          /\ nests' = [nests EXCEPT
                                         ![nid].occupancy_start = Some(e.time),
                                         ![nid].single_hen_start = Some(e.time)]
                          /\ UNCHANGED logs
                     ELSE \E service_time \in sample(distribution_config, e.window) :
                            LET r == handle_arrival(nests[nid], nid, e.time,
                                                    e.hen_id, service_time)
                            IN /\ nests' = [nests EXCEPT ![nid] = r.nest]
                               /\ logs' = logs \o r.logs
                               /\ events' = PushExit(Tail(events), r.exit, nid, e.window)
                               /\ pc' = "loop"
              ELSE LET r == handle_arrival(nests[nid], nid, e.time, e.hen_id, 0)
                   IN /\ nests' = [nests EXCEPT ![nid] = r.nest]
                      /\ logs' = logs \o r.logs
                      /\ events' = PushExit(Tail(events), r.exit, nid, e.window)
                      /\ pc' = "loop"
    /\ UNCHANGED <<n_nests, distribution_config, time_windows, duration_days,
                   t, arrivals>>

\* simulator.py:152-155 and 163-170: an exit is popped and handled by its nest
ProcessExit ==
    /\ pc = "loop"
    /\ events # <<>>
    /\ Head(events).kind = "exit"
    /\ LET e == Head(events)
           nid == e.nest_id[1]
           window_now == window_for_time(time_windows, e.time)
       IN /\ final_time' = Max(final_time, e.time)
          /\ IF e.nest_id = None
               THEN /\ events' = Tail(events)
                    /\ UNCHANGED <<pc, nests, logs>>
               ELSE IF window_now = Raised
               THEN /\ pc' = "error"
                    /\ events' = Tail(events)
                    /\ UNCHANGED <<nests, logs>>
               ELSE IF nests[nid].queue = <<>>
                 THEN LET r == handle_exit(nests[nid], nid, e.time, e.hen_id, 1, 0)
                      IN /\ nests' = [nests EXCEPT ![nid] = r.nest]
                         /\ logs' = logs \o r.logs
                         /\ events' = PushExit(Tail(events), r.exit, nid, window_now)
                         /\ pc' = "loop"
                 ELSE \E idx \in 1..Len(nests[nid].queue) :
                        IF sample(distribution_config, window_now) = {}
                          THEN /\ pc' = "error"
                               /\ events' = Tail(events)
                               /\ nests' = [nests EXCEPT ![nid] =
                                              TakeFromQueue(nests[nid], e.time, idx)]
                               /\ UNCHANGED logs
                          ELSE \E service_time \in sample(distribution_config, window_now) :
                                 LET r == handle_exit(nests[nid], nid, e.time,
                                                      e.hen_id, idx, service_time)
                                 IN /\ nests' = [nests EXCEPT ![nid] = r.nest]
                                    /\ logs' = logs \o r.logs
                                    /\ events' = PushExit(Tail(events), r.exit,
                                                          nid, window_now)
                                    /\ pc' = "loop"
    /\ UNCHANGED <<n_nests, distribution_config, time_windows, duration_days,
                   t, arrivals, placed>>

\* simulator.py:152 and 172-174: the queue is empty, the metrics are finalized
Finalize ==
    /\ pc = "loop"
    /\ events = <<>>
    /\ nests' = [i \in NestIds |-> finalize_metrics(nests[i], final_time)]
    /\ pc' = "done"
    /\ UNCHANGED <<n_nests, distribution_config, time_windows, duration_days,
                   t, arrivals, events, final_time, logs, placed>>

Next == Start \/ ProcessArrival \/ ProcessExit \/ Finalize

Spec == Init /\ [][Next]_vars

-----------------------------------------------------------------------------
(* Simulator.run on configurations the constructor accepts without complaint:
   a uniform part that reaches below zero, and arrivals shortly before the
   hour at which the window "notte" ends *)

\* satisfies mixture_prob in [0,1] and min <= max; its draws are -5, 0 and 5
NegativeConfig == [w \in WindowNames |-> Dist(0, -5, 5, 2)]

EdgeTimes == {0, 5, 14395}

\* time-ordered arrival lists over EdgeTimes, at most MaxArrivals long
EdgeArrivalLists(tw) ==
    LET raw == UNION {[1..k -> EdgeTimes \X Hens] : k \in 0..MaxArrivals}
        sorted(f) == \A i \in 1..(Len(f) - 1) : f[i][1] <= f[i + 1][1]
    IN {[i \in 1..Len(f) |-> << f[i][1], f[i][2], window_for_time(tw, f[i][1]) >>] :
          f \in {g \in raw : sorted(g)}}

\* simulator.py:17-36
EdgeInit ==
    /\ n_nests \in NestCounts
    /\ distribution_config \in {Fixed10Config, NegativeConfig}
    /\ time_windows = DefaultWindows
    /\ duration_days = 1
    /\ pc = "init"
    /\ t = 0
    /\ arrivals = <<>>
    /\ events = <<>>
    /\ final_time = 0
    /\ nests = [i \in NestIds |-> NewNest]
    /\ logs = <<>>
    /\ placed = <<>>

\* simulator.py:143-150
StartEdge ==
    /\ pc = "init"
    /\ \E arr \in EdgeArrivalLists(time_windows) :
         /\ arrivals' = arr
         /\ events' = PushAll(<<>>, arr)
         /\ final_time' = MaxTime(arr, 0)
         /\ pc' = "loop"
    /\ UNCHANGED <<n_nests, distribution_config, time_windows, duration_days,
                   t, nests, logs, placed>>

EdgeNext == StartEdge \/ ProcessArrival \/ ProcessExit \/ Finalize

SpecEdge == EdgeInit /\ [][EdgeNext]_vars

-----------------------------------------------------------------------------
(* Simulator.run from its first line: the arrivals come from generate_arrivals *)

RunWindows == {DefaultWindows, NightDay}

\* simulator.py:17-36 and generators.py:39-42 (run calls generate_arrivals first)
RunInit ==
    /\ n_nests = 1
    /\ distribution_config = MixedConfig
    /\ time_windows \in RunWindows
    /\ duration_days = 1
    /\ pc = "generate"
    /\ t = 0
    /\ arrivals = <<>>
    /\ events = <<>>
    /\ final_time = 0
    /\ nests = [i \in NestIds |-> NewNest]
    /\ logs = <<>>
    /\ placed = <<>>

\* simulator.py:144-150: the generated arrivals are pushed
StartRun ==
    /\ pc = "returned"
    /\ events' = PushAll(<<>>, arrivals)
    /\ final_time' = MaxTime(arrivals, 0)
    /\ pc' = "loop"
    /\ UNCHANGED <<n_nests, distribution_config, time_windows, duration_days,
                   t, arrivals, nests, logs, placed>>

RunNext ==
    GenStep \/ GenReturn \/ StartRun \/ ProcessArrival \/ ProcessExit \/ Finalize

SpecRun == RunInit /\ [][RunNext]_vars

-----------------------------------------------------------------------------
(* Nest.finalize_metrics called on any nest state, and called again *)

\* nest.py:108-117 called on every nest while events are still pending
FinalizeNow ==
    /\ pc = "loop"
    /\ events # <<>>
    /\ nests' = [i \in NestIds |-> finalize_metrics(nests[i], final_time)]
    /\ pc' = "done"
    /\ UNCHANGED <<n_nests, distribution_config, time_windows, duration_days,
                   t, arrivals, events, final_time, logs, placed>>

\* nest.py:108-117 called a second time with the same final_time
FinalizeAgain ==
    /\ pc = "done"
    /\ nests' = [i \in NestIds |-> finalize_metrics(nests[i], final_time)]
    /\ pc' = "finalized_twice"
    /\ UNCHANGED <<n_nests, distribution_config, time_windows, duration_days,
                   t, arrivals, events, final_time, logs, placed>>

NestNext == Next \/ FinalizeNow \/ FinalizeAgain

SpecNest == Init /\ [][NestNext]_vars

-----------------------------------------------------------------------------
(* The infinite-server nest: simulator.py:123 calls Nest.get_co_occurrences,
   which nest.py does not define; the nest below follows the description of
   the infinite-server discipline *)

MaxInfArrivals == 4

\* the pair key (min, max) of two hens
PairOf(a, b) == << Min(a, b), Max(a, b) >>

\* a dict read with a default, as Counter does
CountOf(c, key) == IF key \in DOMAIN c THEN c[key] ELSE 0

NewInfNest ==
    [active |-> << >>,
     co_occurrences |-> << >>,
     occupancy_start |-> None,
     total_occupancy_duration |-> 0,
     single_hen_start |-> None,
     total_single_hen_duration |-> 0]

\* on arrival, before the hen is added: one more for every pair
\* (new hen, currently active hen)
CountArrival(nest, hen_id) ==
    LET met == {PairOf(hen_id, b) : b \in DOMAIN nest.active}
    IN [p \in (DOMAIN nest.co_occurrences) \cup met |->
          CountOf(nest.co_occurrences, p) + (IF p \in met THEN 1 ELSE 0)]

\* infinite-server handle_arrival: always accepted, exit at now + service
inf_handle_arrival(nest, nid, current_time, hen_id, service_time) ==
    LET before == Cardinality(DOMAIN nest.active)
        active == [h \in (DOMAIN nest.active) \cup {hen_id} |->
                     IF h = hen_id THEN current_time ELSE nest.active[h]]
        after == Cardinality(DOMAIN active)
    IN [nest |-> [nest EXCEPT
                    !.co_occurrences = CountArrival(nest, hen_id),
                    !.active = active,
                    !.occupancy_start =
                        IF before = 0 THEN Some(current_time) ELSE @,
                    !.single_hen_start =
                        IF before = 0 THEN Some(current_time)
                        ELSE IF after >= 2 THEN None ELSE @,
                    !.total_single_hen_duration =
                        IF before = 1 /\ after >= 2 /\ nest.single_hen_start # None
                          THEN @ + (current_time - nest.single_hen_start[1])
                          ELSE @],
        logs |-> << LogEntry(current_time, hen_id, nid, "entry") >>,
        exit |-> Some(<< current_time + service_time, hen_id >>)]

\* infinite-server handle_exit: the hen leaves the active set, nothing follows
inf_handle_exit(nest, nid, current_time, hen_id) ==
    LET before == Cardinality(DOMAIN nest.active)
        active == [h \in (DOMAIN nest.active) \ {hen_id} |-> nest.active[h]]
        after == Cardinality(DOMAIN active)
    IN [nest |-> [nest EXCEPT
                    !.active = active,
                    !.occupancy_start =
                        IF before >= 1 /\ after = 0 THEN None ELSE @,
                    !.total_occupancy_duration =
                        IF before >= 1 /\ after = 0 /\ nest.occupancy_start # None
                          THEN @ + (current_time - nest.occupancy_start[1])
                          ELSE @,
                    !.single_hen_start =
                        IF after = 0 THEN None
                        ELSE IF before >= 2 /\ after = 1 THEN Some(current_time)
                        ELSE @,
                    !.total_single_hen_duration =
                        IF before = 1 /\ after = 0 /\ nest.single_hen_start # None
                          THEN @ + (current_time - nest.single_hen_start[1])
                          ELSE @],
        logs |-> << LogEntry(current_time, hen_id, nid, "exit") >>,
        exit |-> None]

\* simulator.py:126: the tuple key becomes a string
pair_key(pair) == ToString(pair[1]) \o "," \o ToString(pair[2])

\* an aggregation that keeps the count of the last nest holding the pair
AddNestOverwrites(total, nest_co_occ) ==
    LET keys == {pair_key(p) : p \in DOMAIN nest_co_occ}
        here(k) == LET p == CHOOSE q \in DOMAIN nest_co_occ : pair_key(q) = k
                   IN nest_co_occ[p]
    IN [k \in (DOMAIN total) \cup keys |->
          IF k \in keys THEN here(k) ELSE total[k]]

\* simulator.py:124-127: one nest's counts are added to the Counter
AddNest(total, nest_co_occ) ==
    LET keys == {pair_key(p) : p \in DOMAIN nest_co_occ}
        here(k) == LET ps == {q \in DOMAIN nest_co_occ : pair_key(q) = k}
                       f[S \in SUBSET ps] ==
                         IF S = {} THEN 0
                         ELSE LET q == CHOOSE r \in S : TRUE
                              IN nest_co_occ[q] + f[S \ {q}]
                   IN f[ps]
    IN [k \in (DOMAIN total) \cup keys |-> CountOf(total, k) + here(k)]

RECURSIVE AggregateUpTo(_)
\* simulator.py:120-123: the Counter after the first k nests
AggregateUpTo(k) ==
    IF k = 0 THEN << >>
    ELSE AddNest(AggregateUpTo(k - 1), nests[k - 1].co_occurrences)

\* simulator.py:115-129
_aggregate_co_occurrences == AggregateUpTo(n_nests)

\* time-ordered arrival lists of at most MaxInfArrivals arrivals
InfArrivalLists(tw) ==
    LET raw == UNION {[1..k -> {0, 5} \X Hens] : k \in 0..MaxInfArrivals}
        sorted(f) == \A i \in 1..(Len(f) - 1) : f[i][1] <= f[i + 1][1]
    IN {[i \in 1..Len(f) |-> << f[i][1], f[i][2], window_for_time(tw, f[i][1]) >>] :
          f \in {g \in raw : sorted(g)}}

\* simulator.py:17-36 with infinite-server nests
InfInit ==
    /\ n_nests \in NestCounts
    /\ distribution_config \in {Fixed10Config, ShortConfig}
    /\ time_windows = DefaultWindows
    /\ duration_days = 1
    /\ pc = "init"
    /\ t = 0
    /\ arrivals = <<>>
    /\ events = <<>>
    /\ final_time = 0
    /\ nests = [i \in NestIds |-> NewInfNest]
    /\ logs = <<>>
    /\ placed = <<>>

\* simulator.py:143-150
InfStart ==
    /\ pc = "init"
    /\ \E arr \in InfArrivalLists(time_windows) :
         /\ arrivals' = arr
         /\ events' = PushAll(<<>>, arr)
         /\ final_time' = MaxTime(arr, 0)
         /\ pc' = "loop"
    /\ UNCHANGED <<n_nests, distribution_config, time_windows, duration_days,
                   t, nests, logs, placed>>

\* simulator.py:152-162 dispatching to an infinite-server nest
InfProcessArrival ==
    /\ pc = "loop"
    /\ events # <<>>
    /\ Head(events).kind = "arrival"
    /\ LET e == Head(events) IN
       \E nid \in NestIds :
         \E service_time \in sample(distribution_config, e.window) :
           LET r == inf_handle_arrival(nests[nid], nid, e.time, e.hen_id, service_time)
           IN /\ final_time' = Max(final_time, e.time)
              /\ placed' = Append(placed, << e.time, e.hen_id, nid >>)
              /\ nests' = [nests EXCEPT ![nid] = r.nest]
              /\ logs' = logs \o r.logs
              /\ events' = PushExit(Tail(events), r.exit, nid, e.window)
    /\ UNCHANGED <<n_nests, distribution_config, time_windows, duration_days,
                   t, arrivals, pc>>

\* simulator.py:152-155 and 163-170 dispatching to an infinite-server nest
InfProcessExit ==
    /\ pc = "loop"
    /\ events # <<>>
    /\ Head(events).kind = "exit"
    /\ LET e == Head(events)
           nid == e.nest_id[1]
           r == inf_handle_exit(nests[nid], nid, e.time, e.hen_id)
       IN /\ final_time' = Max(final_time, e.time)
          /\ window_for_time(time_windows, e.time) # Raised
          /\ nests' = [nests EXCEPT ![nid] = r.nest]
          /\ logs' = logs \o r.logs
          /\ events' = PushExit(Tail(events), r.exit, nid, e.window)
    /\ UNCHANGED <<n_nests, distribution_config, time_windows, duration_days,
                   t, arrivals, placed, pc>>

\* simulator.py:172-180: the loop is over, the co-occurrences are aggregated
InfFinish ==
    /\ pc = "loop"
    /\ events = <<>>
    /\ pc' = "done"
    /\ UNCHANGED <<n_nests, distribution_config, time_windows, duration_days,
                   t, arrivals, events, final_time, nests, logs, placed>>

InfNext == InfStart \/ InfProcessArrival \/ InfProcessExit \/ InfFinish

SpecInf == InfInit /\ [][InfNext]_vars

-----------------------------------------------------------------------------
(* ServiceTimeSampler called on its own *)

MaxCalls == 2

\* one registered window "A"; every record satisfies the data-model invariants
\* (mixture_prob within 0..100 percent, uniform min <= max)
SamplerConfigs ==
    {[w \in {"A"} |-> Dist(mix, u[1], u[2], rate)] :
       mix \in {0, 50, 100}, u \in {v \in DrawGrid \X DrawGrid : v[1] <= v[2]},
       rate \in {0, 2}}

\* distributions.py:6-7; t counts the calls made to the random module
SamplerInit ==
    /\ n_nests = 1
    /\ distribution_config \in SamplerConfigs
    /\ time_windows = DayNight
    /\ duration_days = 1
    /\ pc = "sampler"
    /\ t = 0
    /\ arrivals = <<>>
    /\ events = <<>>
    /\ final_time = 0
    /\ nests = [i \in NestIds |-> NewNest]
    /\ logs = <<>>
    /\ placed = <<>>

\* distributions.py:9-23: one call of sample(window)
CallSample ==
    /\ pc = "sampler"
    /\ Len(logs) < MaxCalls
    /\ \E window \in {"A", "B"} :
         IF sample(distribution_config, window) = {}
           THEN /\ logs' = Append(logs, [call |-> "sample", window |-> window,
                                         raised |-> TRUE, result |-> 0])
                /\ t' = t
           ELSE \E v \in sample(distribution_config, window) :
                  /\ logs' = Append(logs, [call |-> "sample", window |-> window,
                                           raised |-> FALSE, result |-> v])
                  /\ t' = t + 2
    /\ UNCHANGED <<n_nests, distribution_config, time_windows, duration_days, pc,
                   arrivals, events, final_time, nests, placed>>

\* distributions.py:25-29: one call of arrival_rate_per_hour(window)
CallRate ==
    /\ pc = "sampler"
    /\ Len(logs) < MaxCalls
    /\ \E window \in {"A", "B"} :
         LET r == arrival_rate_per_hour(distribution_config, window)
         IN logs' = Append(logs, [call |-> "rate", window |-> window,
                                  raised |-> (r = None),
                                  result |-> IF r = None THEN 0 ELSE r[1]])
    /\ UNCHANGED <<n_nests, distribution_config, time_windows, duration_days, pc,
                   t, arrivals, events, final_time, nests, placed>>

SamplerNext == CallSample \/ CallRate

SpecSampler == SamplerInit /\ [][SamplerNext]_vars

-----------------------------------------------------------------------------
(* Two runs side by side on one nest, the same arrivals and the same service
   draws: in run "siro" handle_exit takes any waiting hen (nest.py:69), in run
   "fifo" it takes the head. In this specification events, final_time, nests
   and logs hold one value per run. *)

Runs == {"siro", "fifo"}

\* simulator.py:17-36 and 143-150, once per run
PairInit ==
    /\ n_nests = 1
    /\ distribution_config \in SimConfigs
    /\ time_windows = DefaultWindows
    /\ duration_days = 1
    /\ pc = "loop"
    /\ t = 0
    /\ arrivals \in ArrivalLists(time_windows)
    /\ events = [r \in Runs |-> PushAll(<<>>, arrivals)]
    /\ final_time = [r \in Runs |-> MaxTime(arrivals, 0)]
    /\ nests = [r \in Runs |-> NewNest]
    /\ logs = [r \in Runs |-> <<>>]
    /\ placed = <<>>

\* simulator.py:152-170 for run r: the head event is popped and handled;
\* idx is the waiting hen taken on an exit, service_time the next draw
LoopStep(r, idx, service_time) ==
    IF events[r] = <<>>
      THEN [nest |-> nests[r], logs |-> logs[r], events |-> events[r],
            final_time |-> final_time[r]]
      ELSE LET e == Head(events[r])
               h == IF e.kind = "arrival"
                      THEN handle_arrival(nests[r], 0, e.time, e.hen_id, service_time)
                      ELSE handle_exit(nests[r], 0, e.time, e.hen_id, idx, service_time)
               window == IF e.kind = "arrival" THEN e.window
                         ELSE window_for_time(time_windows, e.time)
           IN [nest |-> h.nest,
               logs |-> logs[r] \o h.logs,
               events |-> PushExit(Tail(events[r]), h.exit, 0, window),
               final_time |-> Max(final_time[r], e.time)]

\* one iteration of the loop in both runs, with the same service draw
PairStep ==
    /\ pc = "loop"
    /\ \E r \in Runs : events[r] # <<>>
    /\ \E service_time \in sample(distribution_config, "notte") :
       \E idx \in 1..Max(1, Len(nests["siro"].queue)) :
         LET step == [r \in Runs |->
                        LoopStep(r, IF r = "siro" THEN idx ELSE 1, service_time)]
         IN /\ nests' = [r \in Runs |-> step[r].nest]
            /\ logs' = [r \in Runs |-> step[r].logs]
            /\ events' = [r \in Runs |-> step[r].events]
            /\ final_time' = [r \in Runs |-> step[r].final_time]
    /\ UNCHANGED <<n_nests, distribution_config, time_windows, duration_days,
                   pc, t, arrivals, placed>>

\* simulator.py:172-174 in both runs
PairFinalize ==
    /\ pc = "loop"
    /\ \A r \in Runs : events[r] = <<>>
    /\ nests' = [r \in Runs |-> finalize_metrics(nests[r], final_time[r])]
    /\ pc' = "done"
    /\ UNCHANGED <<n_nests, distribution_config, time_windows, duration_days,
                   t, arrivals, events, final_time, logs, placed>>

PairNext == PairStep \/ PairFinalize

SpecPair == PairInit /\ [][PairNext]_vars

-----------------------------------------------------------------------------
(* Observations on a run *)

Count(seq, P(_)) == Cardinality({i \in 1..Len(seq) : P(seq[i])})

EntryLogs(n) == Count(logs, LAMBDA l : l.nest_id = n /\ l.event_type = "entry")
ExitLogs(n) == Count(logs, LAMBDA l : l.nest_id = n /\ l.event_type = "exit")

\* the hens at nest n at instant x: dispatched to it by then and not yet logged out
HensAt(n, x) ==
    Count(placed, LAMBDA a : a[3] = n /\ a[1] <= x)
    - Count(logs, LAMBDA l : l.nest_id = n /\ l.event_type = "exit" /\ l.timestamp <= x)

\* the length of time within [0, final_time] during which nest n held a hen
OccupiedTime(n) == Cardinality({x \in 0..(final_time - 1) : HensAt(n, x) > 0})

\* single nest, hen 1 at t=0, hen 2 at t=5, every service time 10
Scenario ==
    /\ n_nests = 1
    /\ distribution_config = Fixed10Config
    /\ arrivals = << <<0, 1, "notte">>, <<5, 2, "notte">> >>

-----------------------------------------------------------------------------
(* Claims *)

\* C1: after an event is popped and handled, every event left in the queue,
\* the newly scheduled exit included, has a timestamp not earlier than the
\* event just processed, so the popped timestamps never decrease.
C1_PopsNonDecreasing ==
    [][(pc = "loop" /\ events # <<>>) =>
         \A i \in 1..Len(events') : events'[i].time >= Head(events).time]_vars

\* C2: for every nest, at every point of a run, the entry logs emitted for it
\* exceed the exit logs emitted for it by 0 or 1.
C2_AtMostOneInService ==
    \A n \in NestIds : EntryLogs(n) - ExitLogs(n) \in {0, 1}

\* what is still to be done: arrivals to dispatch, exits to process, hens waiting
Variant ==
    IF pc = "init" THEN 3 * MaxArrivals + 2
    ELSE IF pc = "loop"
      THEN 1 + 3 * Count(events, LAMBDA e : e.kind = "arrival")
             + Count(events, LAMBDA e : e.kind = "exit")
             + 2 * Count(placed, LAMBDA a : TRUE)
             - 2 * Count(logs, LAMBDA l : l.event_type = "entry")
      ELSE 0

\* C3: the event loop terminates (every step of run strictly decreases a
\* non-negative measure of the work left, and run can only stop at its end),
\* and at the end the queue is empty, every arrival has been dispatched and has
\* exactly one entry log and one exit log for its hen at its nest, and no hen
\* is left waiting.
C3_EveryHenServedOnce ==
    /\ [][Variant' < Variant /\ Variant' >= 0]_vars
    /\ []((~ ENABLED Next) => pc = "done")
    /\ [](pc = "done" =>
            /\ events = <<>>
            /\ Len(placed) = Len(arrivals)
            /\ \A n \in NestIds :
                 /\ nests[n].queue = <<>>
                 /\ \A h \in Hens :
                      LET here == Count(placed, LAMBDA a : a[2] = h /\ a[3] = n) IN
                      /\ here = Count(logs, LAMBDA l : l.nest_id = n /\ l.hen_id = h
                                                       /\ l.event_type = "entry")
                      /\ here = Count(logs, LAMBDA l : l.nest_id = n /\ l.hen_id = h
                                                       /\ l.event_type = "exit"))

\* C4: once the metrics are finalized, total_occupancy_duration of every nest
\* is the length of time within [0, final_time] during which it held a hen.
C4_OccupancyIsOccupiedTime ==
    pc = "done" =>
      \A n \in NestIds : nests[n].total_occupancy_duration = OccupiedTime(n)

\* C5: in every reachable state of every nest, total_single_hen_duration is at
\* most total_occupancy_duration.
C5_SingleWithinOccupancy ==
    \A n \in NestIds :
      nests[n].total_single_hen_duration <= nests[n].total_occupancy_duration

\* C6: in the scenario the log is entry(1, 0), exit(1, 10), entry(2, 10),
\* exit(2, 20) in that order and total_occupancy_duration is 20.
C6_ScenarioLog ==
    (Scenario /\ pc = "done") =>
      /\ logs = << LogEntry(0, 1, 0, "entry"), LogEntry(10, 1, 0, "exit"),
                   LogEntry(10, 2, 0, "entry"), LogEntry(20, 2, 0, "exit") >>
      /\ nests[0].total_occupancy_duration = 20

\* C6 witness: the scenario has run to its end.
C6_Witness == Scenario /\ pc = "done" /\ final_time = 20

C8_ArrivalsWithinHorizon ==
    pc = "returned" =>
      /\ \A i \in 1..(Len(arrivals) - 1) : arrivals[i][1] <= arrivals[i + 1][1]
      /\ \A i \in 1..Len(arrivals) :
           0 <= arrivals[i][1] /\ arrivals[i][1] < total_seconds

\* C9: for every returned arrival (t, hen_id, window), window_for_time(t) is
\* that window.
C9_WindowMatchesInstant ==
    pc = "returned" =>
      \A i \in 1..Len(arrivals) :
        window_for_time(time_windows, arrivals[i][1]) = arrivals[i][3]

\* C10: no returned arrival has a timestamp whose window has arrival rate 0.
C10_NoArrivalInClosedWindow ==
    pc = "returned" =>
      \A i \in 1..Len(arrivals) :
        LET w == window_for_time(time_windows, arrivals[i][1]) IN
        w # Raised => arrival_rate_per_second(distribution_config, w) # Some(0)

\* C11: once event processing has begun (the heap is seeded and the loop runs)
\* no configuration error is raised: an error can only come before the first
\* event is popped.
C11_NoErrorInsideLoop ==
    [][pc = "loop" => pc' # "error"]_vars

\* C12: a second finalize_metrics call with the same final_time leaves
\* total_occupancy_duration and total_single_hen_duration of every nest unchanged.
C12_FinalizeIdempotent ==
    [][pc = "done" =>
         \A n \in NestIds :
           /\ nests'[n].total_occupancy_duration = nests[n].total_occupancy_duration
           /\ nests'[n].total_single_hen_duration = nests[n].total_single_hen_duration]_vars

\* C12 witness: finalize_metrics was called twice on a nest whose hen was still
\* in service, so the first call closed an open interval of positive length.
C12_Witness ==
    /\ pc = "finalized_twice"
    /\ \E i \in 1..Len(events) : events[i].kind = "exit"
    /\ logs # <<>>
    /\ \A i \in 1..Len(logs) : logs[i].event_type = "entry"
    /\ \E n \in NestIds : nests[n].total_occupancy_duration > 0

\* the hens dispatched to nest n, in dispatch order
ArrivedAt(n) ==
    LET a == SelectSeq(placed, LAMBDA x : x[3] = n)
    IN [i \in 1..Len(a) |-> a[i][2]]

\* the hens that entered service at nest n, in entry order
EnteredAt(n) ==
    LET l == SelectSeq(logs, LAMBDA x : x.nest_id = n /\ x.event_type = "entry")
    IN [i \in 1..Len(l) |-> l[i].hen_id]

\* C13: the hens of a nest enter service in the order in which they arrived at
\* it: the sequence of entry logs of the nest is a prefix of the sequence of
\* hens dispatched to it.
C13_ServedInArrivalOrder ==
    \A n \in NestIds :
      /\ Len(EnteredAt(n)) <= Len(ArrivedAt(n))
      /\ \A i \in 1..Len(EnteredAt(n)) : EnteredAt(n)[i] = ArrivedAt(n)[i]

\* hen b is active at nest n just before log position i: its latest log at
\* the nest is an entry
ActiveBefore(n, b, i) ==
    LET own == {j \in 1..(i - 1) : logs[j].nest_id = n /\ logs[j].hen_id = b}
    IN /\ own # {}
       /\ \A j \in own : (\A k \in own : k <= j) => logs[j].event_type = "entry"

\* the arrivals of hen a at nest n that found hen b active
Found(n, a, b) ==
    Cardinality({i \in 1..Len(logs) :
                   /\ logs[i].nest_id = n /\ logs[i].hen_id = a
                   /\ logs[i].event_type = "entry"
                   /\ ActiveBefore(n, b, i)})

C15_SamplePositive ==
    \A i \in 1..Len(logs) :
      (logs[i].call = "sample" /\ ~ logs[i].raised) => logs[i].result > 0

Held(n) == Count(placed, LAMBDA a : a[3] = n) - ExitLogs(n)

\* C17: after every handle_arrival and handle_exit call of a run,
\* occupancy_start is set exactly when the nest holds at least one hen and
\* single_hen_start is set exactly when it holds exactly one.
C17_StartsFollowOccupancy ==
    pc = "loop" =>
      \A n \in NestIds :
        /\ (nests[n].occupancy_start # None) <=> (Held(n) >= 1)
        /\ (nests[n].single_hen_start # None) <=> (Held(n) = 1)

\* the timestamps and types of a log, without the hen identifiers
Shape(log) == [i \in 1..Len(log) |-> << log[i].timestamp, log[i].event_type >>]

\* C18: with the same arrivals and the same sequence of service draws, the
\* run that takes any waiting hen and the run that takes the head emit logs
\* with the same timestamps and types and accumulate the same
\* total_occupancy_duration and total_single_hen_duration, at every step and
\* after finalize_metrics.
C18_SelectionDoesNotChangeAccounting ==
    /\ Shape(logs["siro"]) = Shape(logs["fifo"])
    /\ nests["siro"].total_occupancy_duration = nests["fifo"].total_occupancy_duration
    /\ nests["siro"].total_single_hen_duration = nests["fifo"].total_single_hen_duration

\* C18 witness: both runs are finished and the random-order run served a hen
\* other than the one the head-of-queue run served at the same log position.
C18_Witness ==
    /\ pc = "done"
    /\ \E i \in 1..Len(logs["siro"]) :
         /\ i <= Len(logs["fifo"])
         /\ logs["siro"][i].hen_id # logs["fifo"][i].hen_id
    /\ nests["siro"].total_occupancy_duration > 0

\* C19: the event popped next is, among the events of the queue with its
\* timestamp, an arrival if there is one, and has the lowest hen id of its
\* kind; so an arrival at the instant a service ends is popped while the exit
\* of that service is still in the queue.
C19_TieOrder ==
    (pc = "loop" /\ events # <<>>) =>
      \A i \in 2..Len(events) :
        events[i].time = Head(events).time =>
          /\ Head(events).kind = "exit" => events[i].kind = "exit"
          /\ events[i].kind = Head(events).kind
               => Head(events).hen_id <= events[i].hen_id

\* C19 witness: the next event is an arrival at the instant the service of a
\* nest ends; the exit of that service and an arrival of a hen with a higher
\* id wait behind it with the same timestamp.
C19_Witness ==
    /\ pc = "loop"
    /\ events # <<>>
    /\ Head(events).kind = "arrival"
    /\ \E i \in 2..Len(events) :
         /\ events[i].kind = "exit"
         /\ events[i].time = Head(events).time
         /\ nests[events[i].nest_id[1]].busy_until = Head(events).time
         /\ events[i].time > 0
    /\ \E i \in 2..Len(events) :
         /\ events[i].kind = "arrival"
         /\ events[i].time = Head(events).time
         /\ events[i].hen_id > Head(events).hen_id

\* C20: every exit event in the queue carries the id of an existing nest, and
\* an exit event is only added by the step in which the handler of that nest
\* started a service (the entry log of that step names the same nest and hen).
C20_ExitsNameTheirNest ==
    /\ [](\A i \in 1..Len(events) :
            events[i].kind = "exit" =>
              /\ events[i].nest_id # None
              /\ events[i].nest_id[1] \in NestIds)
    /\ [][(pc = "loop" /\ events # <<>> /\ Len(events') = Len(events)) =>
            \E i \in 1..Len(events') :
              /\ RemoveAt(events', i) = Tail(events)
              /\ events'[i].kind = "exit"
              /\ Len(logs') > Len(logs)
              /\ LET l == logs'[Len(logs')] IN
                 /\ l.event_type = "entry"
                 /\ events'[i].nest_id = Some(l.nest_id)
                 /\ events'[i].hen_id = l.hen_id
                 /\ events'[i].time = nests'[l.nest_id].busy_until]_vars

\* C20 witness: with two nests, exits scheduled for both wait in the queue
\* and one of them was scheduled by handle_exit for a hen taken from the queue.
C20_Witness ==
    /\ pc = "loop"
    /\ n_nests = 2
    /\ \A n \in NestIds :
         \E i \in 1..Len(events) : events[i].kind = "exit" /\ events[i].nest_id = Some(n)
    /\ \E i \in 1..Len(logs) : logs[i].event_type = "exit"

\* the windows of tw that _in_window accepts at current_time
MatchingWindows(tw, current_time) ==
    {i \in 1..Len(tw) :
       _in_window(current_time % SECONDS_PER_DAY, tw[i].start, tw[i].end)}

\* C21: with the default windows, every instant the generator stands on is
\* matched by exactly one window and window_for_time does not raise.
C21_DefaultWindowsCoverDay ==
    time_windows = DefaultWindows =>
      /\ Cardinality(MatchingWindows(time_windows, t)) = 1
      /\ window_for_time(time_windows, t) # Raised

\* C22: the global log is in non-decreasing timestamp order across all nests.
C22_LogTimestampsNonDecreasing ==
    \A i \in 1..Len(logs) : \A j \in 1..Len(logs) :
      i < j => logs[i].timestamp <= logs[j].timestamp

\* C23: when the loop ends (the queue is empty), every nest has an empty
\* waiting queue and neither occupancy_start nor single_hen_start set, and the
\* finalize_metrics call that follows changes no accumulator.
C23_NothingOpenAtLoopEnd ==
    [][(pc = "loop" /\ events = <<>>) =>
         \A n \in NestIds :
           /\ nests[n].queue = <<>>
           /\ nests[n].occupancy_start = None
           /\ nests[n].single_hen_start = None
           /\ nests'[n].total_occupancy_duration = nests[n].total_occupancy_duration
           /\ nests'[n].total_single_hen_duration = nests[n].total_single_hen_duration]_vars

\* C23 witness: a finished run of three arrivals in which a hen waited in a
\* queue and a nest accumulated occupancy.
C23_Witness ==
    /\ pc = "done"
    /\ Len(arrivals) = 3
    /\ \E i \in 1..Len(logs) :
         /\ logs[i].event_type = "entry"
         /\ \A j \in 1..Len(arrivals) :
              arrivals[j][2] = logs[i].hen_id => arrivals[j][1] < logs[i].timestamp
    /\ \E n \in NestIds : nests[n].total_occupancy_duration > 0

\* the places hen h occupies, in service or waiting, over all nests
PlacesOf(h) ==
    Count(placed, LAMBDA a : a[2] = h)
    - Count(logs, LAMBDA l : l.hen_id = h /\ l.event_type = "exit")

\* C24: at every point of a run each hen occupies at most one place, in
\* service or waiting, over all nests.
C24_HenInOnePlace ==
    pc = "loop" => \A h \in Hens : PlacesOf(h) <= 1

====
